---- MODULE Spec2Model ----
(***************************************************************************)
(* Video ingestion and transcoding pipeline of kalesh:                     *)
(*   app/utils/video_processing.py  (VideoProcessor)                       *)
(*   app/utils/video_queue.py       (VideoProcessingQueue)                 *)
(*   app/utils/deletion_queue.py    (DeletionQueue)                        *)
(*   app/utils/storage.py           (R2Storage)                            *)
(*   app/routers/videos.py          (upload_video, delete_video)           *)
(*   app/main.py                    (lifespan)                             *)
(*                                                                         *)
(* Spec     : the ingestion side of the running application (lifespan,     *)
(*            upload handler, ingestion worker).                           *)
(* SpecEnc  : create_hls_streams applied to every input of a small set.    *)
(* FairSpec : Spec with the fairness the asyncio event loop gives the      *)
(*            worker coroutine.                                            *)
(* SpecDq   : the deletion queue (lifespan, add_to_queue, deletion worker  *)
(*            and its delete tasks) over objects ingested earlier.         *)
(* SpecDel  : delete_video requests in front of the deletion queue, over   *)
(*            records ingested earlier.                                    *)
(* SpecLive : delete_video requests while the ingestion worker runs the    *)
(*            jobs of uploads that have returned.                          *)
(* SpecRestart : VideoProcessingQueue under any sequence of start_worker,  *)
(*            stop_worker and add_to_queue calls.                          *)
(* SpecSan  : the sanitization of title and description applied twice to   *)
(*            every text of a small set.                                   *)
(* SpecTrip : upload_hls_content followed by delete_hls_content, for       *)
(*            artifacts of up to MaxSegments segments per tier.            *)
(* SpecLoop : Spec with the deletion worker, the calls of subprocess.run   *)
(*            shown as the interval in which the event loop's thread is    *)
(*            inside them.                                                 *)
(***************************************************************************)
EXTENDS Integers, Sequences, FiniteSets, TLC

VARIABLES
    videos,       \* db.videos: sequence of records, _id = index
    uploads,      \* per video: position of its upload_video request
    queue,        \* VideoProcessingQueue.queue (FIFO of jobs)
    processing,   \* VideoProcessingQueue.processing
    workers,      \* the _worker coroutines created by start_worker
    lifespan,     \* position of app.main.lifespan
    storage,      \* object keys present in the R2 bucket
    scratch,      \* temp files of download_file that exist on disk
    hist,         \* per video: the values written to processing_status
    marked,       \* video ids in the order they were marked 'processing'
    enq,          \* video ids in the order add_to_queue completed
    deq,          \* video ids in the order the worker dequeued them
    caught,       \* per video: str(e) caught by _process_video ("" if none)
    faults,       \* exceptions raised so far by the database, HTTP and R2
    encIn,        \* create_hls_streams: the input of the run
    encOut,       \* create_hls_streams: the returned value
    delQueue,     \* DeletionQueue.queue (FIFO of deletion tasks)
    delProcessing,\* DeletionQueue.processing
    delWorkers,   \* the DeletionQueue._worker coroutines: their positions
    permits,      \* value of DeletionQueue.semaphore
    delTasks,     \* the _delete_file_with_semaphore tasks created so far
    deletes,      \* the delete_video requests made so far
    form,         \* title and description of an upload form being sanitized
    trip          \* an artifact being published to R2 and deleted again

vars == <<videos, uploads, queue, processing, workers, lifespan, storage,
          scratch, hist, marked, enq, deq, caught, faults, encIn, encOut,
          delQueue, delProcessing, delWorkers, permits, delTasks, deletes,
          form, trip>>

appVars == <<videos, uploads, queue, processing, workers, lifespan, storage,
             scratch, hist, marked, enq, deq, caught, faults>>

\* the variables of the specifications that apply one function to the
\* inputs of a bounded set
encVars == <<encIn, encOut, form, trip>>

NoForm == [text |-> <<>>, title |-> <<>>, description |-> <<>>, passes |-> 0]

NoTrip == [pc |-> "unused", video_id |-> 0, playlists |-> <<>>,
           segments |-> 0, url |-> <<>>, result |-> "none"]

delVars == <<delQueue, delProcessing, delWorkers, permits, delTasks, deletes>>

\* the state of the ingestion side that the deletion side never touches
ingestVars == <<uploads, queue, processing, workers, scratch, hist, marked,
                enq, deq, caught>>

----------------------------------------------------------------------------
(* Bounds                                                                  *)

MaxVideos == 2

\* exceptions the external services (database, HTTP download, R2) raise
MaxFaults == 2

\* settings.MAX_CONCURRENT_DELETIONS
MAX_CONCURRENT_DELETIONS == 2

\* add_to_queue calls on the deletion queue (SpecDq)
MaxDeletions == 3

\* delete_video requests (SpecDel)
MaxRequests == 1

----------------------------------------------------------------------------
(* VideoProcessor: quality table, tier selection, encode loop, manifest    *)

\* get_video_height returns None when the probe fails
NoHeight == 0 - 1

\* ValueError of int()
NotAnInt == 0 - 1

Digits == <<"0", "1", "2", "3", "4", "5", "6", "7", "8", "9">>

IsDigit(c) == \E i \in 1..10 : Digits[i] = c

DigitVal(c) == (CHOOSE i \in 1..10 : Digits[i] = c) - 1

\* str.replace(old, new) for a one-character old, on a sequence of characters
RECURSIVE Replace(_, _, _)
Replace(s, old, new) ==
    IF s = <<>> THEN <<>>
    ELSE (IF Head(s) = old THEN new ELSE <<Head(s)>>) \o Replace(Tail(s), old, new)

\* int(s) for a sequence of characters: decimal digits only, else ValueError
RECURSIVE DigitsValue(_)
DigitsValue(s) ==
    IF s = <<>> THEN 0
    ELSE 10 * DigitsValue(SubSeq(s, 1, Len(s) - 1)) + DigitVal(s[Len(s)])

ParseInt(s) ==
    IF s # <<>> /\ \A i \in 1..Len(s) : IsDigit(s[i])
    THEN DigitsValue(s)
    ELSE NotAnInt

\* float(s) for a sequence of characters: digits with at most one point
IsFloat(s) ==
    /\ \A i \in 1..Len(s) : IsDigit(s[i]) \/ s[i] = "."
    /\ \E i \in 1..Len(s) : IsDigit(s[i])
    /\ Cardinality({i \in 1..Len(s) : s[i] = "."}) <= 1

\* Settings of config.py that the encoder reads
DefaultSettings ==
    [ VIDEO_BITRATE_1080P |-> <<"3", "5", "0", "0", "k">>,
      VIDEO_BITRATE_720P  |-> <<"1", "8", "0", "0", "k">>,
      VIDEO_BITRATE_480P  |-> <<"9", "0", "0", "k">>,
      VIDEO_BITRATE_360P  |-> <<"5", "0", "0", "k">>,
      USE_TWO_PASS_ENCODING |-> FALSE ]

\* the environments the model runs the encoder under (.env overrides)
SettingsSet ==
    { DefaultSettings,
      [DefaultSettings EXCEPT !.USE_TWO_PASS_ENCODING = TRUE],
      [DefaultSettings EXCEPT !.VIDEO_BITRATE_1080P = <<"6", "M">>,
                              !.VIDEO_BITRATE_720P = <<"2", "5", "0", "0", "k">>,
                              !.VIDEO_BITRATE_360P = <<"4", "0", "0">>] }

\* get_qualities(): the dict in insertion order
get_qualities(settings) ==
    << [quality |-> "1080p", width |-> 1920, height |-> 1080,
        bitrate |-> settings.VIDEO_BITRATE_1080P],
       [quality |-> "720p", width |-> 1280, height |-> 720,
        bitrate |-> settings.VIDEO_BITRATE_720P],
       [quality |-> "480p", width |-> 854, height |-> 480,
        bitrate |-> settings.VIDEO_BITRATE_480P],
       [quality |-> "360p", width |-> 640, height |-> 360,
        bitrate |-> settings.VIDEO_BITRATE_360P] >>

QualityNames == {"1080p", "720p", "480p", "360p"}

\* variant: strict comparison
QualityFitsStrict(video_height, q) ==
    /\ video_height # NoHeight
    /\ video_height # 0
    /\ video_height > q.height

\* if video_height and video_height >= settings['height']
QualityFits(video_height, q) ==
    /\ video_height # NoHeight
    /\ video_height # 0
    /\ video_height >= q.height

RECURSIVE FilterQualities(_, _)
FilterQualities(qualities, video_height) ==
    IF qualities = <<>> THEN <<>>
    ELSE (IF QualityFits(video_height, Head(qualities))
          THEN <<Head(qualities)>> ELSE <<>>)
         \o FilterQualities(Tail(qualities), video_height)

\* available_qualities of create_hls_streams, in iteration order
AvailableQualities(settings, video_height) ==
    LET qualities == get_qualities(settings)
        available == FilterQualities(qualities, video_height)
    IN  IF available = <<>> THEN <<qualities[4]>> ELSE available

\* Outcome of one subprocess.run: exit code 0, exit code # 0, TimeoutExpired
RunOutcomes == {"ok", "nonzero", "timeout"}

\* '-maxrate', f"{int(float(bitrate.replace('k', '')) * 1.5)}k" of the
\* command lists: float() raises ValueError on anything but a number
CmdBuilds(bitrate) == IsFloat(Replace(bitrate, "k", <<>>))

\* subprocess.run(cmd, timeout=...): a return code, or TimeoutExpired
RunResult(outcome) == IF outcome = "timeout" THEN "raise" ELSE outcome

\* The encode of one tier: "ok" and "nonzero" are result.returncode, "raise"
\* is an exception.  With two passes the first pass runs first; whether it
\* exits 0 or not, one more encode (second pass or fallback) gives result.
EncodeTier(settings, q, first_pass, encode) ==
    IF ~CmdBuilds(q.bitrate) THEN "raise"
    ELSE IF settings.USE_TWO_PASS_ENCODING
         THEN IF RunResult(first_pass) = "raise" THEN "raise"
              ELSE RunResult(encode)
         ELSE RunResult(encode)

StreamInfLine(q, bandwidth) ==
    "#EXT-X-STREAM-INF:BANDWIDTH=" \o ToString(bandwidth) \o ",RESOLUTION="
        \o ToString(q.width) \o "x" \o ToString(q.height)

PlaylistPath(q) == q.quality \o "/playlist.m3u8"

\* variant: 'k' replaced by two zeros
BandwidthHundreds(bitrate) == ParseInt(Replace(bitrate, "k", <<"0", "0">>))

\* bandwidth = int(settings_dict['bitrate'].replace('k', '000'))
Bandwidth(bitrate) == ParseInt(Replace(bitrate, "k", <<"0", "0", "0">>))

AbsentHls == [absent |-> TRUE, master_playlist |-> <<>>, playlists |-> <<>>]

\* The for loop of create_hls_streams over available_qualities[i..]; acc is
\* (playlists, master_playlist_lines) so far.  An exception leaves the loop
\* for the outer except clause, which returns None.
RECURSIVE EncodeLoop(_, _, _, _)
EncodeLoop(settings, todo, acc, in) ==
    IF todo = <<>>
    THEN IF acc.playlists # <<>>
         THEN [absent |-> FALSE, master_playlist |-> acc.lines,
               playlists |-> acc.playlists]
         ELSE AbsentHls
    ELSE LET q == Head(todo)
             result == EncodeTier(settings, q, in.first_pass[q.quality],
                                  in.encode[q.quality])
         IN  CASE result = "raise" -> AbsentHls
               [] result = "nonzero" -> EncodeLoop(settings, Tail(todo), acc, in)
               [] OTHER ->
                    IF Bandwidth(q.bitrate) = NotAnInt
                    THEN AbsentHls
                    ELSE EncodeLoop(settings, Tail(todo),
                            [playlists |-> Append(acc.playlists, q.quality),
                             lines |-> acc.lines \o
                                 <<StreamInfLine(q, Bandwidth(q.bitrate)),
                                   PlaylistPath(q)>>],
                            in)

ManifestHeader == <<"#EXTM3U", "#EXT-X-VERSION:3">>

\* create_hls_streams; master_playlist is the list that '\n'.join() joins
create_hls_streams(in) ==
    EncodeLoop(in.settings,
               AvailableQualities(in.settings, in.video_height),
               [playlists |-> <<>>, lines |-> ManifestHeader],
               in)

----------------------------------------------------------------------------
(* R2Storage: keys and URLs are lists of path components (str.split('/'))  *)

Range(seq) == {seq[k] : k \in 1..Len(seq)}

PublicUrl == <<"https:", "", "cdn.example">>

Url(key) == PublicUrl \o key

NoUrl == <<>>

IdStr(video_id) == ToString(video_id)

\* upload_file: unique_filename = f"{uuid4()}_{filename}"
RawKey(video_id) == <<"raw_" \o IdStr(video_id) \o ".mp4">>

ThumbKey(video_id) == <<"thumb_" \o IdStr(video_id) \o ".jpg">>

MasterKey(video_id) == <<"hls", IdStr(video_id), "master.m3u8">>

RECURSIVE TierKeys(_, _)
TierKeys(video_id, playlists) ==
    IF playlists = <<>> THEN <<>>
    ELSE << <<"hls", IdStr(video_id), Head(playlists), "playlist.m3u8">>,
            <<"hls", IdStr(video_id), Head(playlists), "segment_000.ts">> >>
         \o TierKeys(video_id, Tail(playlists))

\* upload_hls_content: the put_object calls in the order they are awaited
HlsKeys(video_id, hls_data) ==
    <<MasterKey(video_id)>> \o TierKeys(video_id, hls_data.playlists)

----------------------------------------------------------------------------
(* Media Inspector results and the encoder inputs a job can meet           *)

NoDuration == 0 - 1

\* an exception raised by a probe and not caught in it
Raised == 0 - 2

\* subprocess.run(ffprobe ..., capture_output=True, text=True, timeout=30):
\* TimeoutExpired, or a return code with the text printed on stdout
DurationProbes ==
    { [outcome |-> "ok", stdout |-> <<"1", "2", ".", "5", "\n">>],
      [outcome |-> "ok", stdout |-> <<"N", "/", "A", "\n">>],
      [outcome |-> "ok", stdout |-> <<"\n">>],
      [outcome |-> "nonzero", stdout |-> <<>>],
      [outcome |-> "timeout", stdout |-> <<>>] }

Whitespace == {" ", "\n"}

\* str.strip()
RECURSIVE Strip(_)
Strip(s) ==
    IF s = <<>> THEN <<>>
    ELSE IF Head(s) \in Whitespace THEN Strip(Tail(s))
    ELSE IF s[Len(s)] \in Whitespace THEN Strip(SubSeq(s, 1, Len(s) - 1))
    ELSE s

\* float(s) of a decimal numeral, in thousandths
FloatMillis(s) ==
    LET dots == {i \in 1..Len(s) : s[i] = "."}
        point == IF dots = {} THEN Len(s) + 1 ELSE CHOOSE i \in dots : TRUE
        frac == SubSeq(s \o <<"0", "0", "0">>, point + 1, point + 3)
    IN  1000 * DigitsValue(SubSeq(s, 1, point - 1)) + DigitsValue(frac)

\* variant: no try/except around the probe
get_video_duration_unguarded(probe) ==
    IF probe.outcome = "timeout" THEN Raised
    ELSE IF probe.outcome = "ok" /\ Strip(probe.stdout) # <<>>
         THEN IF IsFloat(Strip(probe.stdout))
              THEN FloatMillis(Strip(probe.stdout)) ELSE Raised
         ELSE NoDuration

\* get_video_duration: float(stdout) when ffprobe exits 0 and prints
\* something; TimeoutExpired and ValueError are caught and give None
get_video_duration(probe) ==
    IF probe.outcome = "timeout" THEN NoDuration
    ELSE IF probe.outcome = "ok" /\ Strip(probe.stdout) # <<>>
         THEN IF IsFloat(Strip(probe.stdout))
              THEN FloatMillis(Strip(probe.stdout)) ELSE NoDuration
         ELSE NoDuration

Durations == {get_video_duration(probe) : probe \in DurationProbes}

\* sources the worker downloads: the height probe fails (tier 360p)
JobHeights == {NoHeight}

AllOk == [q \in QualityNames |-> "ok"]

JobInputs ==
    { [settings |-> DefaultSettings, video_height |-> h,
       first_pass |-> AllOk, encode |-> e] :
        h \in JobHeights,
        e \in {f \in [QualityNames -> RunOutcomes] :
                 \A q \in QualityNames \ {"360p"} : f[q] = "ok"} }

\* process_video_to_hls: (duration, thumbnail_bytes, hls_data), or
\* (None, None, None) when one of the three calls raises
process_video_to_hls(probe, thumbnail_bytes, in) ==
    LET duration == get_video_duration(probe) IN
    IF duration = Raised
    THEN [duration |-> NoDuration, thumbnail_bytes |-> FALSE,
          hls_data |-> AbsentHls]
    ELSE [duration |-> duration, thumbnail_bytes |-> thumbnail_bytes,
          hls_data |-> create_hls_streams(in)]

\* what process_video_to_hls can return for the sources above
JobResults ==
    { process_video_to_hls(probe, thumbnail_bytes, in) :
        probe \in DurationProbes, thumbnail_bytes \in BOOLEAN, in \in JobInputs }

----------------------------------------------------------------------------
(* Metadata records                                                        *)

NoError == ""

NoId == 0

video_doc(video_id, last_part_id) ==
    [ playlist_url |-> Url(RawKey(video_id)),
      thumbnail_url |-> NoUrl,
      duration |-> NoDuration,
      processing_status |-> "pending",
      processing_error |-> NoError,
      is_active |-> TRUE,
      last_part_id |-> last_part_id,
      next_part_id |-> NoId ]

VideoIds == 1..Len(videos)

\* the messages str(e) of the exceptions _process_video catches
ErrDb == "database error"
ErrDownload == "download error"
ErrHls == "Failed to process video to HLS"
ErrUploadHls == "Failed to upload HLS content to R2"
ErrUploadFile == "Failed to upload file to R2"

----------------------------------------------------------------------------
(* VideoProcessingQueue                                                    *)

NoJob == [video_id |-> NoId, raw_video_url |-> NoUrl]

IdleWorker ==
    [ pc |-> "loop", task |-> NoJob, temp_path |-> FALSE,
      duration |-> NoDuration, thumbnail_bytes |-> FALSE,
      hls_data |-> AbsentHls, todo |-> <<>>,
      playlist_url |-> NoUrl, thumbnail_url |-> NoUrl, error |-> NoError ]

WorkerIds == 1..Len(workers)

Init ==
    /\ videos = <<>>
    /\ uploads = <<>>
    /\ queue = <<>>
    /\ processing = FALSE
    /\ workers = <<>>
    /\ lifespan = "init"
    /\ storage = {}
    /\ scratch = {}
    /\ hist = <<>>
    /\ marked = <<>>
    /\ enq = <<>>
    /\ deq = <<>>
    /\ caught = <<>>
    /\ faults = 0
    /\ delQueue = <<>>
    /\ delProcessing = FALSE
    /\ delWorkers = <<>>
    /\ permits = MAX_CONCURRENT_DELETIONS
    /\ delTasks = <<>>
    /\ deletes = {}
    /\ encIn = [settings |-> DefaultSettings, video_height |-> NoHeight,
                first_pass |-> AllOk, encode |-> AllOk]
    /\ encOut = [state |-> "unused", available |-> <<>>, hls_data |-> AbsentHls]
    /\ form = NoForm
    /\ trip = NoTrip

\* start_worker
start_worker ==
    IF ~processing
    THEN /\ processing' = TRUE
         /\ workers' = Append(workers, IdleWorker)
    ELSE UNCHANGED <<processing, workers>>

\* DeletionQueue.start_worker
deletion_start_worker ==
    IF ~delProcessing
    THEN /\ delProcessing' = TRUE
         /\ delWorkers' = Append(delWorkers, "loop")
    ELSE UNCHANGED <<delProcessing, delWorkers>>

\* lifespan: startup
Startup ==
    /\ lifespan = "init"
    /\ start_worker
    /\ deletion_start_worker
    /\ lifespan' = "running"
    /\ UNCHANGED <<videos, uploads, queue, storage, scratch, hist, marked, enq>>
    /\ UNCHANGED <<deq, caught, faults, encVars>>
    /\ UNCHANGED <<delQueue, permits, delTasks, deletes>>

\* lifespan: shutdown, stop_worker
Shutdown ==
    /\ lifespan = "running"
    /\ processing' = FALSE
    /\ delProcessing' = FALSE
    /\ lifespan' = "stopped"
    /\ UNCHANGED <<videos, uploads, queue, workers, storage, scratch, hist,
                   marked, enq>>
    /\ UNCHANGED <<deq, caught, faults, encVars>>
    /\ UNCHANGED <<delQueue, delWorkers, permits, delTasks, deletes>>

\* an awaited call to the database, the HTTP download or R2 returns ...
Returns == faults' = faults

\* ... or raises
Raises == faults < MaxFaults /\ faults' = faults + 1

\* add_to_queue
add_to_queue(video_id, raw_video_url) ==
    /\ queue' = Append(queue, [video_id |-> video_id,
                               raw_video_url |-> raw_video_url])
    /\ enq' = Append(enq, video_id)

----------------------------------------------------------------------------
(* upload_video (routers/videos.py)                                        *)

\* last_part_id accepted by the handler: none, or an active video that has
\* no next part yet (the requests of the model name the newest video)
LastPartChoices ==
    {NoId} \cup {i \in {Len(videos)} \ {0} : videos[i].is_active
                                          /\ videos[i].next_part_id = NoId}

\* variant: the job is put on the queue before its document is inserted
UploadEnqueueFirst ==
    /\ lifespan = "running"
    /\ Len(videos) < MaxVideos
    /\ Len(enq) <= Len(videos)
    /\ storage' = storage \cup {RawKey(Len(videos) + 1)}
    /\ add_to_queue(Len(videos) + 1, Url(RawKey(Len(videos) + 1)))
    /\ UNCHANGED <<videos, uploads, hist, caught>>
    /\ UNCHANGED <<processing, workers, lifespan, scratch, marked>>
    /\ UNCHANGED <<deq, faults, encVars, delVars>>

\* raw upload to R2, then insert_one of the 'pending' document
UploadInsert ==
    /\ lifespan = "running"
    /\ Len(videos) < MaxVideos
    /\ \E last_part_id \in LastPartChoices :
         LET video_id == Len(videos) + 1 IN
         /\ storage' = storage \cup {RawKey(video_id)}
         /\ videos' = Append(videos, video_doc(video_id, last_part_id))
         /\ hist' = Append(hist, <<"pending">>)
         /\ caught' = Append(caught, NoError)
         /\ uploads' = Append(uploads,
                IF last_part_id = NoId THEN "enqueue" ELSE "link")
    /\ UNCHANGED <<queue, processing, workers, lifespan, scratch, marked, enq>>
    /\ UNCHANGED <<deq, faults, encVars, delVars>>

\* update_one of the previous part's next_part_id; the call may raise
UploadLink(video_id) ==
    /\ uploads[video_id] = "link"
    /\ \/ /\ Returns
          /\ videos' = [videos EXCEPT
                 ![videos[video_id].last_part_id].next_part_id = video_id]
          /\ uploads' = [uploads EXCEPT ![video_id] = "enqueue"]
       \/ /\ Raises
          /\ uploads' = [uploads EXCEPT ![video_id] = "except"]
          /\ UNCHANGED videos
    /\ UNCHANGED <<queue, processing, workers, lifespan, storage, scratch,
                   hist, marked, enq>>
    /\ UNCHANGED <<deq, caught, encVars, delVars>>

\* video_queue.add_to_queue(video_id, raw_video_url) and the response
UploadEnqueue(video_id) ==
    /\ uploads[video_id] = "enqueue"
    /\ add_to_queue(video_id, Url(RawKey(video_id)))
    /\ uploads' = [uploads EXCEPT ![video_id] = "done"]
    /\ UNCHANGED <<videos, processing, workers, lifespan, storage, scratch,
                   hist, marked>>
    /\ UNCHANGED <<deq, caught, faults, encVars, delVars>>

\* variant: the except clause writes processing_error only
UploadExceptErrorOnly(video_id) ==
    /\ uploads[video_id] = "except"
    /\ Returns
    /\ videos' = [videos EXCEPT ![video_id].processing_error = ErrDb]
    /\ uploads' = [uploads EXCEPT ![video_id] = "aborted"]
    /\ UNCHANGED <<queue, processing, workers, lifespan, storage, scratch,
                   hist, marked, enq>>
    /\ UNCHANGED <<deq, caught, encVars, delVars>>

\* the except clause: the record exists, so it is marked 'failed'; an
\* exception of that write is swallowed
UploadExcept(video_id) ==
    /\ uploads[video_id] = "except"
    /\ \/ /\ Returns
          /\ videos' = [videos EXCEPT
                 ![video_id].processing_status = "failed",
                 ![video_id].processing_error = ErrDb]
          /\ hist' = [hist EXCEPT ![video_id] = Append(@, "failed")]
       \/ /\ Raises
          /\ UNCHANGED <<videos, hist>>
    /\ uploads' = [uploads EXCEPT ![video_id] = "aborted"]
    /\ UNCHANGED <<queue, processing, workers, lifespan, storage, scratch,
                   marked, enq>>
    /\ UNCHANGED <<deq, caught, encVars, delVars>>

----------------------------------------------------------------------------
(* VideoProcessingQueue._worker and _process_video                         *)

\* variant: the exception leaves the worker loop
AfterProcessErrorExits == "exited"

\* where _worker continues after _process_video raised: the inner
\* except/finally of the loop body, then the while test
AfterProcessError == "loop"

\* variant: the exception of the 'processing' write is ignored
AfterMarkErrorIgnored == "download"

\* where _process_video continues after the 'processing' write raised
AfterMarkError == "except"

\* variant: the newest item leaves the queue
QueueGetNewest(q) == [task |-> q[Len(q)], rest |-> SubSeq(q, 1, Len(q) - 1)]

\* asyncio.Queue.get(): the oldest item leaves the queue
QueueGet(q) == [task |-> Head(q), rest |-> Tail(q)]

\* while self.processing
WorkerLoop(w) ==
    /\ workers[w].pc = "loop"
    /\ workers' = [workers EXCEPT ![w].pc =
                       IF processing THEN "wait" ELSE "exited"]
    /\ UNCHANGED <<videos, uploads, queue, processing, lifespan, storage,
                   scratch, hist, marked, enq>>
    /\ UNCHANGED <<deq, caught, faults, encVars, delVars>>

\* asyncio.wait_for(self.queue.get(), timeout=1.0) returns the oldest job
WorkerGet(w) ==
    /\ workers[w].pc = "wait"
    /\ queue # <<>>
    /\ workers' = [workers EXCEPT ![w].pc = "mark",
                                  ![w].task = QueueGet(queue).task]
    /\ queue' = QueueGet(queue).rest
    /\ deq' = Append(deq, QueueGet(queue).task.video_id)
    /\ UNCHANGED <<videos, uploads, processing, lifespan, storage, scratch,
                   hist, marked, enq>>
    /\ UNCHANGED <<caught, faults, encVars, delVars>>

\* asyncio.TimeoutError: continue
WorkerTimeout(w) ==
    /\ workers[w].pc = "wait"
    /\ queue = <<>>
    /\ workers' = [workers EXCEPT ![w].pc = "loop"]
    /\ UNCHANGED <<videos, uploads, queue, processing, lifespan, storage,
                   scratch, hist, marked, enq>>
    /\ UNCHANGED <<deq, caught, faults, encVars, delVars>>

\* _process_video: update_one processing_status = 'processing'
ProcessMark(w) ==
    LET video_id == workers[w].task.video_id IN
    /\ workers[w].pc = "mark"
    /\ \/ /\ Returns
          /\ videos' = [videos EXCEPT
                 ![video_id].processing_status = "processing"]
          /\ hist' = [hist EXCEPT ![video_id] = Append(@, "processing")]
          /\ marked' = Append(marked, video_id)
          /\ workers' = [workers EXCEPT ![w].pc = "download"]
       \/ /\ Raises
          /\ workers' = [workers EXCEPT ![w].pc = AfterMarkError,
                                        ![w].error = ErrDb]
          /\ UNCHANGED <<videos, hist, marked>>
    /\ UNCHANGED <<uploads, queue, processing, lifespan, storage, scratch, enq>>
    /\ UNCHANGED <<deq, caught, encVars, delVars>>

\* download_file in the executor: returns the temp file's name, raises
\* before the temp file exists, or raises while writing it
ProcessDownload(w) ==
    LET video_id == workers[w].task.video_id IN
    /\ workers[w].pc = "download"
    /\ \/ /\ Returns
          /\ workers' = [workers EXCEPT ![w].pc = "hls",
                                        ![w].temp_path = TRUE]
          /\ scratch' = scratch \cup {video_id}
       \/ /\ Raises
          /\ workers' = [workers EXCEPT ![w].pc = "except",
                                        ![w].error = ErrDownload]
          /\ UNCHANGED scratch
       \/ /\ Raises
          /\ workers' = [workers EXCEPT ![w].pc = "except",
                                        ![w].error = ErrDownload]
          /\ scratch' = scratch \cup {video_id}
    /\ UNCHANGED <<videos, uploads, queue, processing, lifespan, storage,
                   hist, marked, enq>>
    /\ UNCHANGED <<deq, caught, encVars, delVars>>

\* process_video_to_hls(temp_path), then "if not hls_data: raise"
ProcessHls(w) ==
    /\ workers[w].pc = "hls"
    /\ \E r \in JobResults :
         IF r.hls_data.absent
         THEN workers' = [workers EXCEPT ![w].pc = "except",
                                         ![w].error = ErrHls]
         ELSE workers' = [workers EXCEPT
                  ![w].pc = "publish",
                  ![w].duration = r.duration,
                  ![w].thumbnail_bytes = r.thumbnail_bytes,
                  ![w].hls_data = r.hls_data,
                  ![w].todo = HlsKeys(workers[w].task.video_id, r.hls_data)]
    /\ UNCHANGED <<videos, uploads, queue, processing, lifespan, storage,
                   scratch, hist, marked, enq>>
    /\ UNCHANGED <<deq, caught, faults, encVars, delVars>>

\* upload_hls_content: one put_object; after the last one the master URL
\* is returned
ProcessPublish(w) ==
    LET video_id == workers[w].task.video_id
        todo == workers[w].todo IN
    /\ workers[w].pc = "publish"
    /\ \/ /\ Returns
          /\ storage' = storage \cup {Head(todo)}
          /\ workers' = [workers EXCEPT
                 ![w].todo = Tail(todo),
                 ![w].playlist_url =
                     IF Tail(todo) = <<>> THEN Url(MasterKey(video_id)) ELSE @,
                 ![w].pc = IF Tail(todo) # <<>> THEN "publish"
                           ELSE IF workers[w].thumbnail_bytes THEN "thumb"
                           ELSE "complete"]
       \/ /\ Raises
          /\ workers' = [workers EXCEPT ![w].pc = "except",
                                        ![w].error = ErrUploadHls]
          /\ UNCHANGED storage
    /\ UNCHANGED <<videos, uploads, queue, processing, lifespan, scratch,
                   hist, marked, enq>>
    /\ UNCHANGED <<deq, caught, encVars, delVars>>

\* upload_file(thumbnail_bytes, "thumb_{video_id}.jpg", "image/jpeg")
ProcessThumb(w) ==
    LET video_id == workers[w].task.video_id IN
    /\ workers[w].pc = "thumb"
    /\ \/ /\ Returns
          /\ storage' = storage \cup {ThumbKey(video_id)}
          /\ workers' = [workers EXCEPT
                 ![w].pc = "complete",
                 ![w].thumbnail_url = Url(ThumbKey(video_id))]
       \/ /\ Raises
          /\ workers' = [workers EXCEPT ![w].pc = "except",
                                        ![w].error = ErrUploadFile]
          /\ UNCHANGED storage
    /\ UNCHANGED <<videos, uploads, queue, processing, lifespan, scratch,
                   hist, marked, enq>>
    /\ UNCHANGED <<deq, caught, encVars, delVars>>

\* variant: the processed content replaces the whole document (a fresh
\* active document is written) instead of being set on the stored one
ProcessCompleteReplace(w) ==
    LET video_id == workers[w].task.video_id IN
    /\ workers[w].pc = "complete"
    /\ Returns
    /\ videos' = [videos EXCEPT ![video_id] =
           [video_doc(video_id, NoId) EXCEPT
               !.playlist_url = workers[w].playlist_url,
               !.thumbnail_url = workers[w].thumbnail_url,
               !.duration = workers[w].duration,
               !.processing_status = "completed"]]
    /\ hist' = [hist EXCEPT ![video_id] = Append(@, "completed")]
    /\ scratch' = IF workers[w].temp_path
                  THEN scratch \ {video_id} ELSE scratch
    /\ workers' = [workers EXCEPT ![w] = IdleWorker]
    /\ UNCHANGED <<uploads, queue, processing, lifespan, storage, marked, enq>>
    /\ UNCHANGED <<deq, caught, encVars, delVars>>

\* update_one with the processed content, then the temp file is unlinked
\* and _process_video returns to the loop (task_done)
ProcessComplete(w) ==
    LET video_id == workers[w].task.video_id IN
    /\ workers[w].pc = "complete"
    /\ \/ /\ Returns
          /\ videos' = [videos EXCEPT
                 ![video_id].playlist_url = workers[w].playlist_url,
                 ![video_id].thumbnail_url = workers[w].thumbnail_url,
                 ![video_id].duration = workers[w].duration,
                 ![video_id].processing_status = "completed"]
          /\ hist' = [hist EXCEPT ![video_id] = Append(@, "completed")]
          /\ scratch' = IF workers[w].temp_path
                        THEN scratch \ {video_id} ELSE scratch
          /\ workers' = [workers EXCEPT ![w] = IdleWorker]
       \/ /\ Raises
          /\ workers' = [workers EXCEPT ![w].pc = "except",
                                        ![w].error = ErrDb]
          /\ UNCHANGED <<videos, hist, scratch>>
    /\ UNCHANGED <<uploads, queue, processing, lifespan, storage, marked, enq>>
    /\ UNCHANGED <<deq, caught, encVars, delVars>>

\* except Exception as e: update_one 'failed' with str(e), then the temp
\* file is unlinked; if the update raises, the exception leaves
\* _process_video and _worker catches it
ProcessExcept(w) ==
    LET video_id == workers[w].task.video_id IN
    /\ workers[w].pc = "except"
    /\ caught' = [caught EXCEPT ![video_id] = workers[w].error]
    /\ \/ /\ Returns
          /\ videos' = [videos EXCEPT
                 ![video_id].processing_status = "failed",
                 ![video_id].processing_error = workers[w].error]
          /\ hist' = [hist EXCEPT ![video_id] = Append(@, "failed")]
          /\ scratch' = IF workers[w].temp_path
                        THEN scratch \ {video_id} ELSE scratch
          /\ workers' = [workers EXCEPT ![w] = IdleWorker]
       \/ /\ Raises
          /\ workers' = [workers EXCEPT ![w] =
                             [IdleWorker EXCEPT !.pc = AfterProcessError]]
          /\ UNCHANGED <<videos, hist, scratch>>
    /\ UNCHANGED <<uploads, queue, processing, lifespan, storage, marked, enq>>
    /\ UNCHANGED <<deq, encVars, delVars>>

WorkerStep(w) ==
    \/ WorkerLoop(w)
    \/ WorkerGet(w)
    \/ WorkerTimeout(w)
    \/ ProcessMark(w)
    \/ ProcessDownload(w)
    \/ ProcessHls(w)
    \/ ProcessPublish(w)
    \/ ProcessThumb(w)
    \/ ProcessComplete(w)
    \/ ProcessExcept(w)

Next ==
    \/ Startup
    \/ Shutdown
    \/ UploadInsert
    \/ \E video_id \in VideoIds :
         \/ UploadLink(video_id)
         \/ UploadEnqueue(video_id)
         \/ UploadExcept(video_id)
    \/ \E w \in WorkerIds : WorkerStep(w)

Spec == Init /\ [][Next]_vars

\* fairness of the event loop towards the worker coroutines
FairSpec == Spec /\ WF_vars(\E w \in WorkerIds : WorkerStep(w))

----------------------------------------------------------------------------
(* R2Storage.delete_file and delete_hls_content                            *)

\* filename = file_url.split('/')[-1]
FileName(file_url) == <<file_url[Len(file_url)]>>

\* parts.index('hls'), 0 when 'hls' is not in parts
HlsIndex(parts) ==
    IF \E k \in 1..Len(parts) : parts[k] = "hls"
    THEN CHOOSE k \in 1..Len(parts) :
             parts[k] = "hls" /\ \A j \in 1..(k - 1) : parts[j] # "hls"
    ELSE 0

\* base_path = f"hls/{video_id}/" of delete_hls_content; <<>> when the URL
\* has no 'hls' component followed by another one
BasePath(playlist_url) ==
    LET hls_index == HlsIndex(playlist_url) IN
    IF hls_index # 0 /\ Len(playlist_url) > hls_index
    THEN <<"hls", playlist_url[hls_index + 1]>>
    ELSE <<>>

\* the tier directories in the order of their names
ListingTiers == <<"1080p", "360p", "480p", "720p">>

\* segments per tier of the largest artifact
MaxSegments == 999

\* 'segment_%03d.ts' of the ffmpeg command line
SegmentName(k) ==
    "segment_" \o (IF k < 10 THEN "00" ELSE IF k < 100 THEN "0" ELSE "")
               \o ToString(k) \o ".ts"

\* the segment file names in the order of their names
SegmentNames == [k \in 1..MaxSegments |-> SegmentName(k - 1)]

\* position of a segment file name in that order
SegmentIndex(name) ==
    CHOOSE k \in 1..Len(SegmentNames) : SegmentNames[k] = name

\* keys a single list_objects_v2 call returns at most (no MaxKeys argument
\* is passed, so the service's page size applies)
MaxKeys == 1000

\* the keys of the bucket in one tier directory, in the order of their names
TierContents(bucket, dir) ==
    LET files == {key[Len(key)] :
                     key \in {k \in bucket : /\ Len(k) = Len(dir) + 1
                                             /\ SubSeq(k, 1, Len(dir)) = dir}}
        numbers == {SegmentIndex(f) : f \in files \ {"playlist.m3u8"}}
        top == IF numbers = {} THEN 0
               ELSE CHOOSE x \in numbers :
                        (x + 1) \notin numbers /\ \A y \in numbers : y <= x
        segments == SelectSeq(SubSeq(SegmentNames, 1, top),
                              LAMBDA name : name \in files)
    IN  (IF "playlist.m3u8" \in files
         THEN <<dir \o <<"playlist.m3u8">> >> ELSE <<>>)
        \o [j \in 1..Len(segments) |-> dir \o <<segments[j]>>]

\* every key of the bucket under base_path, in the order of the names
RECURSIVE KeysUnder(_, _, _)
KeysUnder(bucket, base_path, tiers) ==
    IF tiers = <<>>
    THEN IF base_path \o <<"master.m3u8">> \in bucket
         THEN <<base_path \o <<"master.m3u8">> >> ELSE <<>>
    ELSE TierContents(bucket, base_path \o <<Head(tiers)>>)
         \o KeysUnder(bucket, base_path, Tail(tiers))

\* response['Contents'] of list_objects_v2(Prefix=base_path): the first
\* MaxKeys keys under the prefix; the rest of a longer listing is only
\* announced by IsTruncated and NextContinuationToken
list_objects_v2(bucket, base_path) ==
    LET keys == KeysUnder(bucket, base_path, ListingTiers)
    IN  IF Len(keys) <= MaxKeys THEN keys ELSE SubSeq(keys, 1, MaxKeys)

\* what an R2 call does: it returns, raises botocore's ClientError, or
\* raises another exception (EndpointConnectionError, ReadTimeoutError, ...)
StorageOutcomes == {"ok", "ClientError", "OtherError"}

\* the except clauses of delete_file and delete_hls_content: ClientError
\* gives False, any other exception leaves the function
DeleteResult(outcome) ==
    CASE outcome = "ok" -> "true"
      [] outcome = "ClientError" -> "false"
      [] OTHER -> "raised"

----------------------------------------------------------------------------
(* DeletionQueue                                                           *)

\* DeletionQueue.add_to_queue; video_id records the video the URL belongs
\* to.  A delete task records in 'result' what the storage function did
\* ("true", "false", "raised"), in 'found' whether the location existed when
\* it was looked up, in 'attempts' how often the storage function was called
deletion_add_to_queue(q, file_type, file_url, video_id) ==
    Append(q, [file_type |-> file_type, file_url |-> file_url,
               video_id |-> video_id])

\* asyncio.create_task(self._delete_file_with_semaphore(file_type, file_url))
NewDeleteTask(item) ==
    [ file_type |-> item.file_type, file_url |-> item.file_url,
      video_id |-> item.video_id, pc |-> "acquire", todo |-> <<>>,
      result |-> "none", found |-> "unknown", attempts |-> 0 ]

DeletionWorkerIds == 1..Len(delWorkers)

DeleteTaskIds == 1..Len(delTasks)

\* while self.processing
DeletionWorkerLoop(d) ==
    /\ delWorkers[d] = "loop"
    /\ delWorkers' = [delWorkers EXCEPT ![d] =
                          IF delProcessing THEN "wait" ELSE "exited"]
    /\ UNCHANGED <<appVars, encVars, delQueue, delProcessing, permits,
                   delTasks, deletes>>

\* wait_for(self.queue.get(), 1.0) returns the oldest item; a delete task is
\* created for it, task_done
DeletionWorkerGet(d) ==
    /\ delWorkers[d] = "wait"
    /\ delQueue # <<>>
    /\ delTasks' = Append(delTasks, NewDeleteTask(Head(delQueue)))
    /\ delQueue' = Tail(delQueue)
    /\ delWorkers' = [delWorkers EXCEPT ![d] = "loop"]
    /\ UNCHANGED <<appVars, encVars, delProcessing, permits, deletes>>

\* asyncio.TimeoutError: continue
DeletionWorkerTimeout(d) ==
    /\ delWorkers[d] = "wait"
    /\ delQueue = <<>>
    /\ delWorkers' = [delWorkers EXCEPT ![d] = "loop"]
    /\ UNCHANGED <<appVars, encVars, delQueue, delProcessing, permits,
                   delTasks, deletes>>

\* variant: the semaphore never blocks
SemaphoreAlwaysFree(value) == TRUE

\* asyncio.Semaphore.acquire returns at once while the value is positive
SemaphoreFree(value) == value > 0

\* variant: the permit is kept
SemaphoreKept(value) == value

\* asyncio.Semaphore.release, at the exit of "async with self.semaphore"
SemaphoreRelease(value) == value + 1

\* the storage call returned or raised: its result is logged, the except
\* clause swallows an exception, and the semaphore is released
DeleteTaskEnd(task, result, found) ==
    [task EXCEPT !.pc = "done", !.todo = <<>>, !.result = result,
                 !.found = found]

\* _delete_file_with_semaphore: "async with self.semaphore", then the code
\* up to the first R2 call.  delete_hls_content returns True at once for a
\* URL without hls/{video_id}
DeleteTaskStart(t) ==
    LET task == delTasks[t]
        base_path == BasePath(task.file_url) IN
    /\ task.pc = "acquire"
    /\ SemaphoreFree(permits)
    /\ IF task.file_type = "hls" /\ base_path = <<>>
       THEN /\ delTasks' = [delTasks EXCEPT ![t] =
                   [DeleteTaskEnd(task, "true", "no") EXCEPT !.attempts = @ + 1]]
            /\ permits' = SemaphoreRelease(permits - 1)
       ELSE /\ delTasks' = [delTasks EXCEPT
                   ![t].pc = IF task.file_type = "hls" THEN "list" ELSE "delete",
                   ![t].todo = IF task.file_type = "hls" THEN <<>>
                               ELSE <<FileName(task.file_url)>>,
                   ![t].attempts = @ + 1]
            /\ permits' = permits - 1
    /\ UNCHANGED <<ingestVars, encVars, videos, lifespan, storage, faults>>
    /\ UNCHANGED <<delQueue, delProcessing, delWorkers, deletes>>

\* delete_hls_content: list_objects_v2(Prefix=base_path)
DeleteTaskList(t) ==
    LET task == delTasks[t]
        contents == list_objects_v2(storage, BasePath(task.file_url)) IN
    /\ task.pc = "list"
    /\ \E outcome \in StorageOutcomes :
         IF outcome = "ok"
         THEN /\ Returns
              /\ IF contents = <<>>
                 THEN /\ delTasks' = [delTasks EXCEPT ![t] =
                             DeleteTaskEnd(task, "true", "no")]
                      /\ permits' = SemaphoreRelease(permits)
                 ELSE /\ delTasks' = [delTasks EXCEPT ![t].pc = "delete",
                                                      ![t].todo = contents,
                                                      ![t].found = "yes"]
                      /\ UNCHANGED permits
         ELSE /\ Raises
              /\ delTasks' = [delTasks EXCEPT ![t] =
                     DeleteTaskEnd(task, DeleteResult(outcome), "unknown")]
              /\ permits' = SemaphoreRelease(permits)
    /\ UNCHANGED <<ingestVars, encVars, videos, lifespan, storage>>
    /\ UNCHANGED <<delQueue, delProcessing, delWorkers, deletes>>

\* one delete_object: the only one of delete_file, the next one of the loop
\* of delete_hls_content
DeleteTaskDelete(t) ==
    LET task == delTasks[t]
        key == Head(task.todo)
        found == IF task.file_type = "hls" THEN task.found
                 ELSE IF key \in storage THEN "yes" ELSE "no"
    IN
    /\ task.pc = "delete"
    /\ \E outcome \in StorageOutcomes :
         IF outcome = "ok"
         THEN /\ Returns
              /\ storage' = storage \ {key}
              /\ IF Tail(task.todo) = <<>>
                 THEN /\ delTasks' = [delTasks EXCEPT ![t] =
                             DeleteTaskEnd(task, "true", found)]
                      /\ permits' = SemaphoreRelease(permits)
                 ELSE /\ delTasks' = [delTasks EXCEPT ![t].todo = Tail(task.todo)]
                      /\ UNCHANGED permits
         ELSE /\ Raises
              /\ UNCHANGED storage
              /\ delTasks' = [delTasks EXCEPT ![t] =
                     DeleteTaskEnd(task, DeleteResult(outcome), found)]
              /\ permits' = SemaphoreRelease(permits)
    /\ UNCHANGED <<ingestVars, encVars, videos, lifespan>>
    /\ UNCHANGED <<delQueue, delProcessing, delWorkers, deletes>>

DeletionWorkerStep(d) ==
    \/ DeletionWorkerLoop(d)
    \/ DeletionWorkerGet(d)
    \/ DeletionWorkerTimeout(d)

DeleteTaskStep(t) ==
    \/ DeleteTaskStart(t)
    \/ DeleteTaskList(t)
    \/ DeleteTaskDelete(t)

----------------------------------------------------------------------------
(* delete_video (routers/videos.py)                                        *)

\* the fields of the document read by find_one that the handler uses after
\* its first database write
DeletedDoc(video) ==
    [last_part_id |-> video.last_part_id, next_part_id |-> video.next_part_id]

NoDoc == [last_part_id |-> NoId, next_part_id |-> NoId]

\* the deletion tasks the handler enqueues for the document it read
EnqueueDeletions(q, video_id, video) ==
    LET hls == deletion_add_to_queue(q, "hls", video.playlist_url, video_id)
    IN  IF video.thumbnail_url # NoUrl
        THEN deletion_add_to_queue(hls, "regular", video.thumbnail_url, video_id)
        ELSE hls

Request(video_id, pc, video) ==
    [video_id |-> video_id, pc |-> pc, video |-> video]

\* where the handler continues after delete_many of the interactions
AfterInteractions(video) ==
    IF video.last_part_id # NoId THEN "unlink_last"
    ELSE IF video.next_part_id # NoId THEN "unlink_next"
    ELSE "done"

\* find_one of the active video, then the deletion tasks are enqueued; an
\* exception of find_one ends the request
DeleteFind(video_id) ==
    /\ lifespan = "running"
    /\ Cardinality(deletes) < MaxRequests
    /\ \A r \in deletes : r.video_id # video_id
    /\ videos[video_id].is_active
    /\ \/ /\ Returns
          /\ delQueue' = EnqueueDeletions(delQueue, video_id, videos[video_id])
          /\ deletes' = deletes \cup
                 {Request(video_id, "soft", DeletedDoc(videos[video_id]))}
       \/ /\ Raises
          /\ deletes' = deletes \cup {Request(video_id, "aborted", NoDoc)}
          /\ UNCHANGED delQueue
    /\ UNCHANGED <<ingestVars, encVars, videos, lifespan, storage>>
    /\ UNCHANGED <<delProcessing, delWorkers, permits, delTasks>>

\* update_one is_active = False (soft delete)
DeleteSoft(r) ==
    /\ r.pc = "soft"
    /\ \/ /\ Returns
          /\ videos' = [videos EXCEPT ![r.video_id].is_active = FALSE]
          /\ deletes' = (deletes \ {r}) \cup {[r EXCEPT !.pc = "interactions"]}
       \/ /\ Raises
          /\ deletes' = (deletes \ {r}) \cup {Request(r.video_id, "aborted", NoDoc)}
          /\ UNCHANGED videos
    /\ UNCHANGED <<ingestVars, encVars, lifespan, storage>>
    /\ UNCHANGED <<delQueue, delProcessing, delWorkers, permits, delTasks>>

\* db.interactions.delete_many
DeleteInteractions(r) ==
    /\ r.pc = "interactions"
    /\ \/ /\ Returns
          /\ deletes' = (deletes \ {r}) \cup
                 {IF AfterInteractions(r.video) = "done"
                  THEN Request(r.video_id, "done", NoDoc)
                  ELSE [r EXCEPT !.pc = AfterInteractions(r.video)]}
       \/ /\ Raises
          /\ deletes' = (deletes \ {r}) \cup {Request(r.video_id, "aborted", NoDoc)}
    /\ UNCHANGED <<ingestVars, encVars, videos, lifespan, storage>>
    /\ UNCHANGED <<delQueue, delProcessing, delWorkers, permits, delTasks>>

\* update_one of the previous part: its next_part_id becomes this video's
DeleteUnlinkLast(r) ==
    /\ r.pc = "unlink_last"
    /\ \/ /\ Returns
          /\ videos' = [videos EXCEPT
                 ![r.video.last_part_id].next_part_id = r.video.next_part_id]
          /\ deletes' = (deletes \ {r}) \cup
                 {IF r.video.next_part_id # NoId
                  THEN [r EXCEPT !.pc = "unlink_next"]
                  ELSE Request(r.video_id, "done", NoDoc)}
       \/ /\ Raises
          /\ deletes' = (deletes \ {r}) \cup {Request(r.video_id, "aborted", NoDoc)}
          /\ UNCHANGED videos
    /\ UNCHANGED <<ingestVars, encVars, lifespan, storage>>
    /\ UNCHANGED <<delQueue, delProcessing, delWorkers, permits, delTasks>>

\* update_one of the next part: its last_part_id becomes this video's
DeleteUnlinkNext(r) ==
    /\ r.pc = "unlink_next"
    /\ \/ /\ Returns
          /\ videos' = [videos EXCEPT
                 ![r.video.next_part_id].last_part_id = r.video.last_part_id]
          /\ deletes' = (deletes \ {r}) \cup {Request(r.video_id, "done", NoDoc)}
       \/ /\ Raises
          /\ deletes' = (deletes \ {r}) \cup {Request(r.video_id, "aborted", NoDoc)}
          /\ UNCHANGED videos
    /\ UNCHANGED <<ingestVars, encVars, lifespan, storage>>
    /\ UNCHANGED <<delQueue, delProcessing, delWorkers, permits, delTasks>>

DeleteStep(r) ==
    \/ DeleteSoft(r)
    \/ DeleteInteractions(r)
    \/ DeleteUnlinkLast(r)
    \/ DeleteUnlinkNext(r)

----------------------------------------------------------------------------
(* SpecEnc: create_hls_streams on its own                                  *)

EncHeights == {NoHeight, 0, 240, 360, 479, 480, 720, 1079, 1080, 2160}

\* the first pass only runs with USE_TWO_PASS_ENCODING
FirstPassOutcomes(settings) ==
    IF settings.USE_TWO_PASS_ENCODING
    THEN [QualityNames -> RunOutcomes] ELSE {AllOk}

RECURSIVE Names(_)
Names(qualities) ==
    IF qualities = <<>> THEN <<>>
    ELSE <<Head(qualities).quality>> \o Names(Tail(qualities))

InitEnc ==
    /\ videos = <<>>
    /\ uploads = <<>>
    /\ queue = <<>>
    /\ processing = FALSE
    /\ workers = <<>>
    /\ lifespan = "init"
    /\ storage = {}
    /\ scratch = {}
    /\ hist = <<>>
    /\ marked = <<>>
    /\ enq = <<>>
    /\ deq = <<>>
    /\ caught = <<>>
    /\ faults = 0
    /\ delQueue = <<>>
    /\ delProcessing = FALSE
    /\ delWorkers = <<>>
    /\ permits = MAX_CONCURRENT_DELETIONS
    /\ delTasks = <<>>
    /\ deletes = {}
    /\ \E s \in SettingsSet, h \in EncHeights :
         \E f \in FirstPassOutcomes(s), e \in [QualityNames -> RunOutcomes] :
            encIn = [settings |-> s, video_height |-> h,
                     first_pass |-> f, encode |-> e]
    /\ encOut = [state |-> "unused", available |-> <<>>, hls_data |-> AbsentHls]
    /\ form = NoForm
    /\ trip = NoTrip

\* hls_data = await VideoProcessor.create_hls_streams(video_path)
EncRun ==
    /\ encOut.state = "unused"
    /\ encOut' = [state |-> "returned",
                  available |-> Names(AvailableQualities(encIn.settings,
                                                         encIn.video_height)),
                  hls_data |-> create_hls_streams(encIn)]
    /\ UNCHANGED <<encIn, form, trip, appVars, delVars>>

NextEnc == EncRun

SpecEnc == InitEnc /\ [][NextEnc]_vars

----------------------------------------------------------------------------
(* SpecDq: the deletion side, started over the records and objects that    *)
(* earlier ingestion left in the database and the bucket                   *)

\* what ingestion leaves of a video: its record 'pending', 'failed', or
\* 'completed' without or with a thumbnail
Leftovers == {"pending", "failed", "completed", "completed_thumb"}

LeftTiers == [playlists |-> <<"360p">>]

LeftDoc(video_id, kind, last_part_id, next_part_id) ==
    LET doc == [video_doc(video_id, last_part_id) EXCEPT
                   !.next_part_id = next_part_id]
        completed == [doc EXCEPT !.playlist_url = Url(MasterKey(video_id)),
                                 !.duration = 12500,
                                 !.processing_status = "completed"]
    IN  CASE kind = "pending" -> doc
          [] kind = "failed" -> [doc EXCEPT !.processing_status = "failed",
                                            !.processing_error = ErrHls]
          [] kind = "completed" -> completed
          [] OTHER -> [completed EXCEPT
                          !.thumbnail_url = Url(ThumbKey(video_id))]

LeftObjects(video_id, kind) ==
    {RawKey(video_id)}
    \cup (IF kind \in {"completed", "completed_thumb"}
          THEN Range(HlsKeys(video_id, LeftTiers)) ELSE {})
    \cup (IF kind = "completed_thumb" THEN {ThumbKey(video_id)} ELSE {})

LeftHist(kind) ==
    CASE kind = "pending" -> <<"pending">>
      [] kind = "failed" -> <<"pending", "processing", "failed">>
      [] OTHER -> <<"pending", "processing", "completed">>

\* the application before startup, over what ingestion left
InitLeft(kindsSet, seriesSet) ==
    /\ \E kinds \in kindsSet, series \in seriesSet :
         /\ videos = [i \in 1..MaxVideos |->
                LeftDoc(i, kinds[i],
                        IF series /\ i > 1 THEN i - 1 ELSE NoId,
                        IF series /\ i < MaxVideos THEN i + 1 ELSE NoId)]
         /\ storage = UNION {LeftObjects(i, kinds[i]) : i \in 1..MaxVideos}
         /\ hist = [i \in 1..MaxVideos |-> LeftHist(kinds[i])]
         /\ caught = [i \in 1..MaxVideos |->
                IF kinds[i] = "failed" THEN ErrHls ELSE NoError]
    /\ uploads = [i \in 1..MaxVideos |-> "done"]
    /\ queue = <<>>
    /\ processing = FALSE
    /\ workers = <<>>
    /\ lifespan = "init"
    /\ scratch = {}
    /\ marked = <<>>
    /\ enq = <<>>
    /\ deq = <<>>
    /\ faults = 0
    /\ delQueue = <<>>
    /\ delProcessing = FALSE
    /\ delWorkers = <<>>
    /\ permits = MAX_CONCURRENT_DELETIONS
    /\ delTasks = <<>>
    /\ deletes = {}
    /\ encIn = [settings |-> DefaultSettings, video_height |-> NoHeight,
                first_pass |-> AllOk, encode |-> AllOk]
    /\ encOut = [state |-> "unused", available |-> <<>>, hls_data |-> AbsentHls]
    /\ form = NoForm
    /\ trip = NoTrip

\* one finished video with a thumbnail, the others still pending
InitDq ==
    InitLeft({[i \in 1..MaxVideos |->
                  IF i = 1 THEN "completed_thumb" ELSE "pending"]}, {FALSE})

\* the (file_type, file_url) pairs callers pass to add_to_queue: the
\* playlist_url of a record as 'hls', its thumbnail_url as 'regular'
DeletionItems ==
    UNION { {[file_type |-> "hls", file_url |-> videos[i].playlist_url,
              video_id |-> i]}
            \cup (IF videos[i].thumbnail_url # NoUrl
                  THEN {[file_type |-> "regular",
                         file_url |-> videos[i].thumbnail_url, video_id |-> i]}
                  ELSE {}) : i \in VideoIds }

\* a caller awaits deletion_queue.add_to_queue(file_type, file_url)
DeletionEnqueue ==
    /\ Len(delQueue) + Len(delTasks) < MaxDeletions
    /\ \E item \in DeletionItems :
         delQueue' = deletion_add_to_queue(delQueue, item.file_type,
                                           item.file_url, item.video_id)
    /\ UNCHANGED <<appVars, encVars, delProcessing, delWorkers, permits,
                   delTasks, deletes>>

NextDq ==
    \/ Startup
    \/ Shutdown
    \/ DeletionEnqueue
    \/ \E d \in DeletionWorkerIds : DeletionWorkerStep(d)
    \/ \E t \in DeleteTaskIds : DeleteTaskStep(t)

SpecDq == InitDq /\ [][NextDq]_vars

----------------------------------------------------------------------------
(* SpecDel: delete_video requests with the deletion side behind them       *)

InitDel == InitLeft([1..MaxVideos -> Leftovers], BOOLEAN)

NextDel ==
    \/ Startup
    \/ Shutdown
    \/ \E video_id \in VideoIds : DeleteFind(video_id)
    \/ \E r \in deletes : DeleteStep(r)
    \/ \E d \in DeletionWorkerIds : DeletionWorkerStep(d)
    \/ \E t \in DeleteTaskIds : DeleteTaskStep(t)

SpecDel == InitDel /\ [][NextDel]_vars

TypeOK ==
    /\ processing \in BOOLEAN
    /\ lifespan \in {"init", "running", "stopped"}
    /\ Len(videos) <= MaxVideos
    /\ Len(workers) <= 1

----------------------------------------------------------------------------
(* Properties                                                              *)

Pos(seq, x) == CHOOSE k \in 1..Len(seq) : seq[k] = x

IsPrefix(s, t) == Len(s) <= Len(t) /\ s = SubSeq(t, 1, Len(s))

Terminal == {"completed", "failed"}

\* a worker holds the job of video i (dequeued, _process_video not left)
InFlight(i) == \E w \in WorkerIds : workers[w].task.video_id = i

\* the worker dequeued the job of video i and has left _process_video
Finished(i) == i \in Range(deq) /\ ~InFlight(i)

\* C1 (as claimed): at most one record has processing_status 'processing'.
C1_AtMostOneProcessing ==
    Cardinality({i \in VideoIds :
                    videos[i].processing_status = "processing"}) <= 1

\* C2 (as claimed): the values written to a record's processing_status are
\* a prefix of pending, processing, (completed | failed).
C2_ExactOrder ==
    \A i \in VideoIds :
        \/ IsPrefix(hist[i], <<"pending", "processing", "completed">>)
        \/ IsPrefix(hist[i], <<"pending", "processing", "failed">>)

\* C2 (amended): the values written to a record's processing_status are a
\* prefix of pending, processing, (completed | failed), or are pending,
\* failed: 'processing' may be skipped on the way to 'failed' only; nothing
\* is repeated, nothing leaves 'processing' except to a terminal state,
\* nothing leaves a terminal state and 'pending' is never re-entered.
C2_StatusWrites ==
    \A i \in VideoIds :
        \/ IsPrefix(hist[i], <<"pending", "processing", "completed">>)
        \/ IsPrefix(hist[i], <<"pending", "processing", "failed">>)
        \/ hist[i] = <<"pending", "failed">>

C2_Witness ==
    \E i, j \in VideoIds :
        /\ hist[i] = <<"pending", "processing", "completed">>
        /\ hist[j] = <<"pending", "failed">>

\* C3 (as claimed): if A was enqueued before B and B has been marked
\* 'processing', then A was marked 'processing' before B.
C3_MarkedInEnqueueOrder ==
    \A a, b \in 1..Len(enq) :
        (a < b /\ enq[b] \in Range(marked)) =>
            /\ enq[a] \in Range(marked)
            /\ Pos(marked, enq[a]) < Pos(marked, enq[b])

\* C3 (amended): jobs are dequeued in the order add_to_queue completed, and
\* the records that are marked 'processing' are marked in that order: a job
\* enqueued before B is never marked 'processing' after B (it may never be
\* marked at all, when its 'processing' write raises).
C3_Fifo ==
    /\ IsPrefix(deq, enq)
    /\ \A a, b \in 1..Len(marked) :
           a < b => Pos(enq, marked[a]) < Pos(enq, marked[b])

C3_Witness == Len(enq) >= 2 /\ Len(marked) >= 2

\* C4 (as claimed): of two jobs enqueued one after the other, the second
\* one's record stays 'pending' until the first one's record is 'completed'
\* or 'failed'.
C4_SecondPendingUntilFirstTerminal ==
    \A a, b \in 1..Len(enq) :
        (a < b /\ videos[enq[b]].processing_status # "pending") =>
            videos[enq[a]].processing_status \in Terminal

\* C5 (as claimed): when download, inspection, encoding or publishing raised
\* inside _process_video, the job ends with the record 'failed' and a
\* non-empty processing_error.
C5_FailureRecorded ==
    \A i \in VideoIds :
        (Finished(i) /\ caught[i] \in {ErrDownload, ErrHls, ErrUploadHls,
                                       ErrUploadFile}) =>
            /\ videos[i].processing_status = "failed"
            /\ videos[i].processing_error # NoError

\* C6: a failed job never halts the queue: while the worker is not stopped
\* its loop is running, and every enqueued job is eventually dequeued and
\* its _process_video left (unless the worker is stopped first), whatever
\* happened to the jobs before it.
C6_QueueNeverHalts ==
    /\ [](processing => \A w \in WorkerIds : workers[w].pc # "exited")
    /\ \A i \in 1..MaxVideos :
           (i \in Range(enq)) ~> (Finished(i) \/ ~processing)

\* a job whose failure could not even be recorded, and a later job done
C6_Witness ==
    \E a, b \in 1..Len(deq) :
        /\ a < b
        /\ caught[deq[a]] # NoError
        /\ videos[deq[a]].processing_status \notin Terminal
        /\ Finished(deq[b])
        /\ processing

\* the outcome of tier q's encode under the input of the run
TierResult(q) ==
    EncodeTier(encIn.settings,
               CHOOSE t \in Range(get_qualities(encIn.settings)) : t.quality = q,
               encIn.first_pass[q], encIn.encode[q])

\* C7 (as claimed, the part about create_hls_streams): None is returned if
\* and only if every selected tier's encode failed; otherwise 'playlists'
\* holds exactly the tiers whose encode succeeded.
C7_AbsentIffAllFailed ==
    encOut.state = "returned" =>
        LET succeeded == {q \in Range(encOut.available) : TierResult(q) = "ok"}
        IN  /\ encOut.hls_data.absent <=> succeeded = {}
            /\ ~encOut.hls_data.absent =>
                   Range(encOut.hls_data.playlists) = succeeded

\* the input of the run with every timeout turned into a non-zero exit code
TimeoutsAsNonZero ==
    [encIn EXCEPT
        !.first_pass = [q \in QualityNames |->
                           IF @[q] = "timeout" THEN "nonzero" ELSE @[q]],
        !.encode = [q \in QualityNames |->
                       IF @[q] = "timeout" THEN "nonzero" ELSE @[q]]]

\* C8 (as claimed): an encode that exceeds its timeout is treated exactly
\* like one that exits non-zero: the run returns what it would return had
\* the timed-out invocations exited non-zero.
C8_TimeoutLikeNonZero ==
    encOut.state = "returned" =>
        encOut.hls_data = create_hls_streams(TimeoutsAsNonZero)

TierHeight ==
    [q \in QualityNames |->
        CASE q = "1080p" -> 1080 [] q = "720p" -> 720
          [] q = "480p" -> 480 [] q = "360p" -> 360]

TierWidth ==
    [q \in QualityNames |->
        CASE q = "1080p" -> 1920 [] q = "720p" -> 1280
          [] q = "480p" -> 854 [] q = "360p" -> 640]

TierBitrate(q) ==
    CASE q = "1080p" -> encIn.settings.VIDEO_BITRATE_1080P
      [] q = "720p" -> encIn.settings.VIDEO_BITRATE_720P
      [] q = "480p" -> encIn.settings.VIDEO_BITRATE_480P
      [] q = "360p" -> encIn.settings.VIDEO_BITRATE_360P

\* a bitrate "<n>k" is n * 1000 bits per second, "<n>" is n
BitsPerSecond(bitrate) ==
    IF bitrate[Len(bitrate)] = "k"
    THEN 1000 * DigitsValue(SubSeq(bitrate, 1, Len(bitrate) - 1))
    ELSE DigitsValue(bitrate)

RECURSIVE ExpectedPairs(_)
ExpectedPairs(names) ==
    IF names = <<>> THEN <<>>
    ELSE LET q == Head(names) IN
         << "#EXT-X-STREAM-INF:BANDWIDTH=" \o ToString(BitsPerSecond(TierBitrate(q)))
                \o ",RESOLUTION=" \o ToString(TierWidth[q]) \o "x"
                \o ToString(TierHeight[q]),
            q \o "/playlist.m3u8" >> \o ExpectedPairs(Tail(names))

\* C10: the master manifest returned for N successful tiers is the two
\* header lines followed by N pairs (STREAM-INF line, '<tier>/playlist.m3u8'),
\* one per tier of 'playlists', in processing order (descending resolution),
\* with BANDWIDTH the tier's bitrate in bits per second and RESOLUTION the
\* tier's width x height.
C10_MasterManifest ==
    (encOut.state = "returned" /\ ~encOut.hls_data.absent) =>
        LET names == encOut.hls_data.playlists
            lines == encOut.hls_data.master_playlist
        IN  /\ lines = <<"#EXTM3U", "#EXT-X-VERSION:3">> \o ExpectedPairs(names)
            /\ Len(lines) = 2 + 2 * Len(names)
            /\ \A a, b \in 1..Len(names) :
                   a < b => TierHeight[names[a]] > TierHeight[names[b]]

C10_Witness ==
    /\ encOut.state = "returned"
    /\ encOut.hls_data.playlists = <<"1080p", "360p">>
    /\ encOut.hls_data.master_playlist[3] =
           "#EXT-X-STREAM-INF:BANDWIDTH=3500000,RESOLUTION=1920x1080"

\* the duration probe timed out, exited non-zero or printed no number
ProbeFailed(probe) ==
    \/ probe.outcome # "ok"
    \/ ~IsFloat(Strip(probe.stdout))

\* C11: when the duration probe times out, exits non-zero or prints
\* unparsable output, get_video_duration returns None without raising and
\* process_video_to_hls returns None for the duration together with what the
\* thumbnail and encoder calls returned; a job that carries duration None
\* and whose encoding and publishing succeeded gets its record 'completed'
\* with duration null.
C11_DurationBestEffort ==
    /\ \A probe \in DurationProbes, thumbnail_bytes \in BOOLEAN, in \in JobInputs :
           ProbeFailed(probe) =>
               /\ get_video_duration(probe) = NoDuration
               /\ process_video_to_hls(probe, thumbnail_bytes, in)
                      = [duration |-> NoDuration,
                         thumbnail_bytes |-> thumbnail_bytes,
                         hls_data |-> create_hls_streams(in)]
    /\ [][\A w \in WorkerIds :
             LET video_id == workers[w].task.video_id IN
             (workers[w].pc = "complete" /\ workers[w].duration = NoDuration
                 /\ workers'[w] = IdleWorker) =>
                 /\ videos'[video_id].processing_status = "completed"
                 /\ videos'[video_id].duration = NoDuration]_vars

C11_Witness ==
    \E i \in VideoIds :
        /\ videos[i].processing_status = "completed"
        /\ videos[i].duration = NoDuration
        /\ videos[i].playlist_url = Url(MasterKey(i))

\* the delete tasks that hold a permit: inside their storage call
InStorageCall == {t \in DeleteTaskIds : delTasks[t].pc \in {"list", "delete"}}

\* C12 (as claimed): delete_file and delete_hls_content never raise: no
\* delete task has seen its storage function raise.
C12_DeleteNeverRaises ==
    \A t \in DeleteTaskIds : delTasks[t].result # "raised"

\* C13 (as claimed): a deletion whose location does not exist (no object
\* under the prefix, no hls/{job_id} in the URL, or a missing key) returns
\* false.
C13_MissingLocationFalse ==
    \A t \in DeleteTaskIds :
        (delTasks[t].pc = "done" /\ delTasks[t].found = "no") =>
            delTasks[t].result = "false"

\* C14: at most MAX_CONCURRENT_DELETIONS delete tasks are inside their
\* storage call at once, however many tasks were enqueued.
C14_BoundedConcurrency ==
    Cardinality(InStorageCall) <= MAX_CONCURRENT_DELETIONS

\* more than one in flight, and the limit holds a third one back
C14_Witness ==
    /\ Cardinality(InStorageCall) = MAX_CONCURRENT_DELETIONS
    /\ MAX_CONCURRENT_DELETIONS > 1
    /\ \E t \in DeleteTaskIds : delTasks[t].pc = "acquire"

\* C15: every deletion task is attempted exactly once: a dequeued task calls
\* its storage function once, whether that returns true, returns false or
\* raises; a step of a task never puts anything on the queue or creates a
\* task; every permit not held by a task inside its storage call has been
\* released; and the deletion worker is running while it is not stopped.
C15_AttemptedOnce ==
    /\ [](\A t \in DeleteTaskIds :
            delTasks[t].attempts = (IF delTasks[t].pc = "acquire" THEN 0 ELSE 1))
    /\ [](permits = MAX_CONCURRENT_DELETIONS - Cardinality(InStorageCall))
    /\ [](delProcessing =>
            \A d \in DeletionWorkerIds : delWorkers[d] # "exited")
    /\ [][(\E t \in DeleteTaskIds : delTasks'[t] # delTasks[t]) =>
             /\ delQueue' = delQueue
             /\ Len(delTasks') = Len(delTasks)
             /\ \A t \in DeleteTaskIds :
                    delTasks[t].pc = "done" => delTasks'[t] = delTasks[t]]_vars

\* one task returned true, one false, one raised; all permits are back and
\* the worker is still running
C15_Witness ==
    /\ \A result \in {"true", "false", "raised"} :
           \E t \in DeleteTaskIds : delTasks[t].result = result
    /\ permits = MAX_CONCURRENT_DELETIONS
    /\ delProcessing
    /\ \E d \in DeletionWorkerIds : delWorkers[d] = "wait"

\* the videos a deletion task is queued or was created for
DeletionTaskVideos ==
    {delQueue[k].video_id : k \in 1..Len(delQueue)}
    \cup {delTasks[t].video_id : t \in DeleteTaskIds}

\* C16 (as claimed): the record is soft-deleted before any deletion task for
\* the video is enqueued: no deletion task exists for an active record.
C16_SoftDeleteBeforeEnqueue ==
    \A i \in DeletionTaskVideos : ~videos[i].is_active

\* the key of the object a public URL names
UrlKey(url) == SubSeq(url, Len(PublicUrl) + 1, Len(url))

\* C18 (as claimed): the playlist_url of an active record names an object
\* that exists in storage; it is the master manifest URL exactly when the
\* status is 'completed', and then every sub-manifest and segment of the
\* artifact is in storage; otherwise it is the raw upload URL.
C18_PlaylistResolvable ==
    \A i \in VideoIds :
        videos[i].is_active =>
            /\ UrlKey(videos[i].playlist_url) \in storage
            /\ IF videos[i].processing_status = "completed"
               THEN /\ videos[i].playlist_url = Url(MasterKey(i))
                    /\ Range(HlsKeys(i, LeftTiers)) \subseteq storage
               ELSE videos[i].playlist_url = Url(RawKey(i))

\* C17: a job is put on the ingestion queue only after its record has been
\* inserted with processing_status 'pending': the record of every job that
\* is enqueued exists at that moment and is 'pending', so the record of every
\* job that is queued, was dequeued or is held by the worker exists.
C17_EnqueueAfterInsert ==
    /\ [](\A k \in 1..Len(queue) : queue[k].video_id \in VideoIds)
    /\ [](\A k \in 1..Len(deq) :
            deq[k] \in VideoIds /\ Head(hist[deq[k]]) = "pending")
    /\ [](\A w \in WorkerIds :
            workers[w].task # NoJob => workers[w].task.video_id \in VideoIds)
    /\ [][Len(enq') > Len(enq) =>
             LET video_id == enq'[Len(enq')] IN
             /\ video_id \in VideoIds
             /\ videos[video_id].processing_status = "pending"]_vars

\* the worker has dequeued a job and is about to write to its record
C17_Witness ==
    \E w \in WorkerIds :
        /\ workers[w].pc = "mark"
        /\ workers[w].task.video_id \in VideoIds
        /\ videos[workers[w].task.video_id].processing_status = "pending"

\* C19: a record has processing_error set only if its processing_status is
\* 'failed'; no pending, processing or completed record carries one.
C19_ErrorOnlyWhenFailed ==
    \A i \in VideoIds :
        videos[i].processing_error # NoError =>
            videos[i].processing_status = "failed"

\* a failed record with its error next to a completed record without one
C19_Witness ==
    \E i, j \in VideoIds :
        /\ videos[i].processing_status = "failed"
        /\ videos[i].processing_error # NoError
        /\ videos[j].processing_status = "completed"
        /\ videos[j].processing_error = NoError

\* C20 (as claimed): from the moment a job is enqueued until its record is
\* 'completed' or 'failed', the record is written by the ingestion worker
\* that holds the job only: no handler write interleaves.
C20_WorkerOwnsRecord ==
    [][\A i \in VideoIds :
          (i \in Range(enq) /\ videos[i].processing_status \notin Terminal
              /\ videos'[i] # videos[i]) =>
              \E w \in WorkerIds :
                  /\ workers[w].task.video_id = i
                  /\ workers'[w] # workers[w]]_vars

----------------------------------------------------------------------------
(* Stopping the worker, leaving _process_video                             *)

\* C21 (as claimed): a job that is in flight while the worker is stopped is
\* not cancelled: the worker does not exit while it holds the job, the job
\* leaves _process_video with its record 'completed' or 'failed', and an
\* exited worker holds no job.
C21_StopLetsJobFinish ==
    /\ [](\A w \in WorkerIds :
             workers[w].pc = "exited" => workers[w].task = NoJob)
    /\ [][\A w \in WorkerIds :
             (~processing /\ workers[w].task # NoJob) =>
                 /\ workers'[w].pc # "exited"
                 /\ workers'[w].task = NoJob =>
                        videos'[workers[w].task.video_id].processing_status
                            \in Terminal]_vars

\* C23 (as claimed): once _process_video is left, the temp file of its
\* download is gone.
C23_ScratchRemoved ==
    \A i \in VideoIds : Finished(i) => i \notin scratch

\* C27 (as claimed): every dequeued job eventually has its record
\* 'completed' or 'failed', unless the worker is stopped.
C27_EventuallyTerminal ==
    \A i \in 1..MaxVideos :
        (i \in Range(deq)) ~>
            \/ i \in VideoIds /\ videos[i].processing_status \in Terminal
            \/ ~processing

\* C28 (as claimed): while the worker is stopped no job is dequeued.
C28_NoDequeueAfterStop ==
    [][~processing => deq' = deq]_vars

----------------------------------------------------------------------------
(* Blobs of a deleted video                                                *)

\* the objects in storage that belong to video i: its raw upload, its
\* thumbnail and everything under hls/{i}/
StoredFor(i) ==
    {key \in storage : \/ key = RawKey(i)
                       \/ key = ThumbKey(i)
                       \/ IsPrefix(<<"hls", IdStr(i)>>, key)}

\* the deletion tasks of video i have all run and reported success
DeletionsSucceeded(i) ==
    /\ \A k \in 1..Len(delQueue) : delQueue[k].video_id # i
    /\ \E t \in DeleteTaskIds : delTasks[t].video_id = i
    /\ \A t \in DeleteTaskIds :
           delTasks[t].video_id = i =>
               delTasks[t].pc = "done" /\ delTasks[t].result = "true"

\* C29 (as claimed): after delete_video of a video has finished and its
\* deletion tasks have run and reported success, no object stored for that
\* video remains.
C29_NoBlobRemains ==
    \A r \in deletes :
        (r.pc = "done" /\ DeletionsSucceeded(r.video_id)) =>
            StoredFor(r.video_id) = {}

----------------------------------------------------------------------------
(* SpecLive: delete_video requests while the ingestion side is running     *)

\* the running application after MaxVideos uploads (of one series or of
\* none) have returned and before the worker has looked at the queue
InitLive ==
    /\ \E series \in BOOLEAN :
         videos = [i \in 1..MaxVideos |->
            [video_doc(i, IF series /\ i > 1 THEN i - 1 ELSE NoId) EXCEPT
                !.next_part_id = IF series /\ i < MaxVideos THEN i + 1
                                 ELSE NoId]]
    /\ uploads = [i \in 1..MaxVideos |-> "done"]
    /\ queue = [i \in 1..MaxVideos |->
                   [video_id |-> i, raw_video_url |-> Url(RawKey(i))]]
    /\ processing = TRUE
    /\ workers = <<IdleWorker>>
    /\ lifespan = "running"
    /\ storage = {RawKey(i) : i \in 1..MaxVideos}
    /\ scratch = {}
    /\ hist = [i \in 1..MaxVideos |-> <<"pending">>]
    /\ marked = <<>>
    /\ enq = [i \in 1..MaxVideos |-> i]
    /\ deq = <<>>
    /\ caught = [i \in 1..MaxVideos |-> NoError]
    /\ faults = 0
    /\ delQueue = <<>>
    /\ delProcessing = TRUE
    /\ delWorkers = <<"loop">>
    /\ permits = MAX_CONCURRENT_DELETIONS
    /\ delTasks = <<>>
    /\ deletes = {}
    /\ encIn = [settings |-> DefaultSettings, video_height |-> NoHeight,
                first_pass |-> AllOk, encode |-> AllOk]
    /\ encOut = [state |-> "unused", available |-> <<>>, hls_data |-> AbsentHls]
    /\ form = NoForm
    /\ trip = NoTrip

NextLive ==
    \/ Shutdown
    \/ \E w \in WorkerIds : WorkerStep(w)
    \/ \E video_id \in VideoIds : DeleteFind(video_id)
    \/ \E r \in deletes : DeleteStep(r)

SpecLive == InitLive /\ [][NextLive]_vars

\* the fields of a record that no write of the worker names
KeptFields(doc) == [is_active |-> doc.is_active,
                    last_part_id |-> doc.last_part_id,
                    next_part_id |-> doc.next_part_id]

\* the fields that only the 'completed' write names
ContentFields(doc) == [playlist_url |-> doc.playlist_url,
                       thumbnail_url |-> doc.thumbnail_url,
                       duration |-> doc.duration]

\* C30: a step of the worker changes at most the record of the job the
\* stepping worker holds, and in it only processing_status, playlist_url,
\* thumbnail_url, duration and processing_error; is_active and the part links
\* keep their values, the 'failed' and 'processing' writes keep playlist_url,
\* thumbnail_url and duration, and no record is inserted.  No step makes an
\* inactive record active again.
C30_WorkerWriteFrame ==
    /\ [][workers' # workers =>
            /\ Len(videos') = Len(videos)
            /\ \A i \in VideoIds :
                 videos'[i] # videos[i] =>
                     /\ \E w \in WorkerIds :
                            /\ workers[w].task.video_id = i
                            /\ workers'[w] # workers[w]
                     /\ KeptFields(videos'[i]) = KeptFields(videos[i])
                     /\ videos'[i].processing_status # "completed" =>
                            ContentFields(videos'[i]) = ContentFields(videos[i])
                     /\ videos'[i].processing_status # "failed" =>
                            videos'[i].processing_error
                                = videos[i].processing_error]_vars
    /\ [][\A i \in VideoIds :
             ~videos[i].is_active => ~videos'[i].is_active]_vars

\* a soft-deleted record that the worker has completed: it carries the
\* master URL and is still inactive
C30_Witness ==
    \E i \in VideoIds :
        /\ ~videos[i].is_active
        /\ videos[i].processing_status = "completed"
        /\ videos[i].playlist_url = Url(MasterKey(i))
        /\ Finished(i)

----------------------------------------------------------------------------
(* SpecRestart: VideoProcessingQueue under any sequence of start_worker,   *)
(* stop_worker and add_to_queue calls                                      *)

\* start_worker calls that create a worker
MaxStarts == 2

\* the records of MaxVideos uploads exist, nothing is queued, no worker was
\* started
InitRestart ==
    /\ videos = [i \in 1..MaxVideos |-> video_doc(i, NoId)]
    /\ uploads = [i \in 1..MaxVideos |-> "enqueue"]
    /\ queue = <<>>
    /\ processing = FALSE
    /\ workers = <<>>
    /\ lifespan = "running"
    /\ storage = {RawKey(i) : i \in 1..MaxVideos}
    /\ scratch = {}
    /\ hist = [i \in 1..MaxVideos |-> <<"pending">>]
    /\ marked = <<>>
    /\ enq = <<>>
    /\ deq = <<>>
    /\ caught = [i \in 1..MaxVideos |-> NoError]
    /\ faults = 0
    /\ delQueue = <<>>
    /\ delProcessing = FALSE
    /\ delWorkers = <<>>
    /\ permits = MAX_CONCURRENT_DELETIONS
    /\ delTasks = <<>>
    /\ deletes = {}
    /\ encIn = [settings |-> DefaultSettings, video_height |-> NoHeight,
                first_pass |-> AllOk, encode |-> AllOk]
    /\ encOut = [state |-> "unused", available |-> <<>>, hls_data |-> AbsentHls]
    /\ form = NoForm
    /\ trip = NoTrip

\* a caller awaits start_worker()
RestartStart ==
    /\ Len(workers) < MaxStarts
    /\ start_worker
    /\ UNCHANGED <<videos, uploads, queue, lifespan, storage, scratch, hist,
                   marked, enq>>
    /\ UNCHANGED <<deq, caught, faults, encVars, delVars>>

\* a caller awaits stop_worker()
RestartStop ==
    /\ processing
    /\ processing' = FALSE
    /\ UNCHANGED <<videos, uploads, queue, workers, lifespan, storage, scratch,
                   hist, marked, enq>>
    /\ UNCHANGED <<deq, caught, faults, encVars, delVars>>

NextRestart ==
    \/ RestartStart
    \/ RestartStop
    \/ \E video_id \in VideoIds : UploadEnqueue(video_id)
    \/ \E w \in WorkerIds : WorkerStep(w)

SpecRestart == InitRestart /\ [][NextRestart]_vars

\* the _worker coroutines that have not left their loop
LiveWorkers == {w \in WorkerIds : workers[w].pc # "exited"}

\* C26 (as claimed): at most one _worker coroutine is executing its loop.
C26_SingleWorker == Cardinality(LiveWorkers) <= 1

\* two workers hold a job each
C26_TwoJobsInFlight ==
    \E v, w \in WorkerIds :
        v # w /\ workers[v].task # NoJob /\ workers[w].task # NoJob

----------------------------------------------------------------------------
(* SpecSan: the sanitization of title and description applied, and applied *)
(* again, to every text of a bounded set                                   *)

\* length of the texts
MaxText == 5

Chars == {"<", ">", "a", " "}

Texts == UNION {[1..n -> Chars] : n \in 0..MaxText}

\* index of the first '>' of s, 0 when there is none
FirstClose(s) ==
    IF \E k \in 1..Len(s) : s[k] = ">"
    THEN CHOOSE k \in 1..Len(s) : s[k] = ">" /\ \A j \in 1..(k - 1) : s[j] # ">"
    ELSE 0

\* index of the first '<' or '>' after the first character of s, 0 when
\* there is none
FirstBracket(s) ==
    IF \E k \in 2..Len(s) : s[k] \in {"<", ">"}
    THEN CHOOSE k \in 2..Len(s) :
             s[k] \in {"<", ">"} /\ \A j \in 2..(k - 1) : s[j] \notin {"<", ">"}
    ELSE 0

\* variant: re.sub(r'<[^<>]*>', '', s), only tags without a '<' inside match
RECURSIVE StripInnerTags(_)
StripInnerTags(s) ==
    IF s = <<>> THEN <<>>
    ELSE IF Head(s) = "<" /\ FirstBracket(s) # 0 /\ s[FirstBracket(s)] = ">"
    THEN StripInnerTags(SubSeq(s, FirstBracket(s) + 1, Len(s)))
    ELSE <<Head(s)>> \o StripInnerTags(Tail(s))

\* re.sub(r'<[^>]*>', '', s): scanning from the left, a '<' that has a '>'
\* after it is removed together with everything up to the first such '>'
RECURSIVE StripTags(_)
StripTags(s) ==
    IF s = <<>> THEN <<>>
    ELSE IF Head(s) = "<" /\ FirstClose(s) # 0
    THEN StripTags(SubSeq(s, FirstClose(s) + 1, Len(s)))
    ELSE <<Head(s)>> \o StripTags(Tail(s))

sanitize_title(v) == Strip(StripTags(v))

sanitize_description(v) == StripTags(v)

InitSan ==
    /\ videos = <<>>
    /\ uploads = <<>>
    /\ queue = <<>>
    /\ processing = FALSE
    /\ workers = <<>>
    /\ lifespan = "init"
    /\ storage = {}
    /\ scratch = {}
    /\ hist = <<>>
    /\ marked = <<>>
    /\ enq = <<>>
    /\ deq = <<>>
    /\ caught = <<>>
    /\ faults = 0
    /\ delQueue = <<>>
    /\ delProcessing = FALSE
    /\ delWorkers = <<>>
    /\ permits = MAX_CONCURRENT_DELETIONS
    /\ delTasks = <<>>
    /\ deletes = {}
    /\ encIn = [settings |-> DefaultSettings, video_height |-> NoHeight,
                first_pass |-> AllOk, encode |-> AllOk]
    /\ encOut = [state |-> "unused", available |-> <<>>, hls_data |-> AbsentHls]
    /\ \E text \in Texts :
         form = [text |-> text, title |-> text, description |-> text,
                 passes |-> 0]
    /\ trip = NoTrip

\* the sanitization is applied to the values of the form
SanitizeForm ==
    /\ form.passes < 2
    /\ form' = [form EXCEPT !.title = sanitize_title(@),
                            !.description = sanitize_description(@),
                            !.passes = @ + 1]
    /\ UNCHANGED <<encIn, encOut, trip, appVars, delVars>>

NextSan == SanitizeForm

SpecSan == InitSan /\ [][NextSan]_vars

----------------------------------------------------------------------------
(* SpecTrip: upload_hls_content, then delete_hls_content of the URL it     *)
(* returned, for artifacts of a bounded set                                *)

\* the tiers in the order create_hls_streams encodes them
TierOrder == <<"1080p", "720p", "480p", "360p">>

\* hls_data['playlists'] of an artifact: its tiers
TripPlaylists ==
    {SelectSeq(TierOrder, LAMBDA q : q \in tiers) :
        tiers \in SUBSET QualityNames \ {{}}}

\* len(data['segments']) of each tier of an artifact
TripSegments == 1..6 \cup {MaxSegments}

\* the keys upload_hls_content puts for one tier: the playlist, then the
\* segments
TripTierKeys(video_id, quality, segments) ==
    << <<"hls", IdStr(video_id), quality, "playlist.m3u8">> >>
    \o [k \in 1..segments |->
           <<"hls", IdStr(video_id), quality, SegmentName(k - 1)>>]

RECURSIVE TripKeys(_, _, _)
TripKeys(video_id, playlists, segments) ==
    IF playlists = <<>> THEN <<>>
    ELSE TripTierKeys(video_id, Head(playlists), segments)
         \o TripKeys(video_id, Tail(playlists), segments)

\* upload_hls_content when every put_object returns: the bucket afterwards
\* and the returned master URL
upload_hls_content(bucket, video_id, playlists, segments) ==
    [ bucket |-> bucket \cup {MasterKey(video_id)}
                        \cup Range(TripKeys(video_id, playlists, segments)),
      url |-> Url(MasterKey(video_id)) ]

\* variant: the listing is not limited to one page
delete_all_hls_content(bucket, playlist_url) ==
    [ bucket |-> bucket \ Range(KeysUnder(bucket, BasePath(playlist_url),
                                          ListingTiers)),
      result |-> "true" ]

\* delete_hls_content when every R2 call returns: the bucket afterwards and
\* the returned value
delete_hls_content(bucket, playlist_url) ==
    LET base_path == BasePath(playlist_url) IN
    [ bucket |-> IF base_path = <<>> THEN bucket
                 ELSE bucket \ Range(list_objects_v2(bucket, base_path)),
      result |-> "true" ]

\* the bucket holds the raw uploads; video 1 is to be published
InitTrip ==
    /\ videos = <<>>
    /\ uploads = <<>>
    /\ queue = <<>>
    /\ processing = FALSE
    /\ workers = <<>>
    /\ lifespan = "init"
    /\ storage = {RawKey(i) : i \in 1..MaxVideos}
    /\ scratch = {}
    /\ hist = <<>>
    /\ marked = <<>>
    /\ enq = <<>>
    /\ deq = <<>>
    /\ caught = <<>>
    /\ faults = 0
    /\ delQueue = <<>>
    /\ delProcessing = FALSE
    /\ delWorkers = <<>>
    /\ permits = MAX_CONCURRENT_DELETIONS
    /\ delTasks = <<>>
    /\ deletes = {}
    /\ encIn = [settings |-> DefaultSettings, video_height |-> NoHeight,
                first_pass |-> AllOk, encode |-> AllOk]
    /\ encOut = [state |-> "unused", available |-> <<>>, hls_data |-> AbsentHls]
    /\ form = NoForm
    /\ \E playlists \in TripPlaylists, segments \in TripSegments :
         trip = [NoTrip EXCEPT !.pc = "ready", !.video_id = 1,
                               !.playlists = playlists,
                               !.segments = segments]

\* playlist_url = await r2_storage.upload_hls_content(hls_data, video_id)
TripPublish ==
    LET r == upload_hls_content(storage, trip.video_id, trip.playlists,
                                trip.segments) IN
    /\ trip.pc = "ready"
    /\ storage' = r.bucket
    /\ trip' = [trip EXCEPT !.pc = "published", !.url = r.url]
    /\ UNCHANGED <<videos, uploads, queue, processing, workers, lifespan,
                   scratch, hist, marked, enq, deq, caught, faults>>
    /\ UNCHANGED <<encIn, encOut, form, delVars>>

\* success = await r2_storage.delete_hls_content(file_url)
TripDelete ==
    LET r == delete_hls_content(storage, trip.url) IN
    /\ trip.pc = "published"
    /\ storage' = r.bucket
    /\ trip' = [trip EXCEPT !.pc = "deleted", !.result = r.result]
    /\ UNCHANGED <<videos, uploads, queue, processing, workers, lifespan,
                   scratch, hist, marked, enq, deq, caught, faults>>
    /\ UNCHANGED <<encIn, encOut, form, delVars>>

NextTrip ==
    \/ TripPublish
    \/ TripDelete

SpecTrip == InitTrip /\ [][NextTrip]_vars

\* C25 (as claimed): after upload_hls_content returned u and
\* delete_hls_content(u) returned true, no object with a key under
\* hls/{job_id}/ is left in storage.
C25_RoundTripEmpty ==
    (trip.pc = "deleted" /\ trip.result = "true") =>
        \A key \in storage : ~IsPrefix(<<"hls", IdStr(trip.video_id)>>, key)

----------------------------------------------------------------------------
(* SpecLoop: the event loop while the worker runs ffprobe and ffmpeg.      *)
(* process_video_to_hls calls subprocess.run in the coroutine itself, so   *)
(* the thread of the event loop is inside that call until it returns.      *)

\* process_video_to_hls is entered: subprocess.run is called
ProcessHlsRun(w) ==
    /\ workers[w].pc = "hls"
    /\ workers' = [workers EXCEPT ![w].pc = "subprocess"]
    /\ UNCHANGED <<videos, uploads, queue, processing, lifespan, storage,
                   scratch, hist, marked, enq>>
    /\ UNCHANGED <<deq, caught, faults, encVars, delVars>>

\* the last subprocess.run has returned: process_video_to_hls returns, then
\* "if not hls_data: raise"
ProcessHlsReturn(w) ==
    /\ workers[w].pc = "subprocess"
    /\ \E r \in JobResults :
         IF r.hls_data.absent
         THEN workers' = [workers EXCEPT ![w].pc = "except",
                                         ![w].error = ErrHls]
         ELSE workers' = [workers EXCEPT
                  ![w].pc = "publish",
                  ![w].duration = r.duration,
                  ![w].thumbnail_bytes = r.thumbnail_bytes,
                  ![w].hls_data = r.hls_data,
                  ![w].todo = HlsKeys(workers[w].task.video_id, r.hls_data)]
    /\ UNCHANGED <<videos, uploads, queue, processing, lifespan, storage,
                   scratch, hist, marked, enq>>
    /\ UNCHANGED <<deq, caught, faults, encVars, delVars>>

\* the thread of the event loop is inside subprocess.run
Stalled == \E w \in WorkerIds : workers[w].pc = "subprocess"

\* a step of a request handler (add_to_queue included) or of the deletion
\* worker
OtherCoroutines ==
    \/ UploadInsert
    \/ \E video_id \in VideoIds :
         \/ UploadLink(video_id)
         \/ UploadEnqueue(video_id)
         \/ UploadExcept(video_id)
    \/ \E d \in DeletionWorkerIds : DeletionWorkerStep(d)

\* the event loop resumes another coroutine: its thread is not inside a call
Scheduled == ~Stalled /\ OtherCoroutines

\* the event loop resumes the lifespan or the ingestion worker
ScheduledWorker ==
    /\ ~Stalled
    /\ \/ Startup
       \/ Shutdown
       \/ \E w \in WorkerIds :
            \/ WorkerLoop(w)
            \/ WorkerGet(w)
            \/ WorkerTimeout(w)
            \/ ProcessMark(w)
            \/ ProcessDownload(w)
            \/ ProcessHlsRun(w)
            \/ ProcessPublish(w)
            \/ ProcessThumb(w)
            \/ ProcessComplete(w)
            \/ ProcessExcept(w)

NextLoop ==
    \/ Scheduled
    \/ ScheduledWorker
    \/ \E w \in WorkerIds : ProcessHlsReturn(w)

SpecLoop == Init /\ [][NextLoop]_vars

\* C24 (as claimed): while the ingestion worker waits for an encode or probe
\* subprocess, a request handler or the deletion worker that has a step to
\* take can take it.
C24_LoopNotStalled ==
    (Stalled /\ ENABLED OtherCoroutines) => ENABLED Scheduled

====
